---- MODULE Spec2Model ----
(***************************************************************************)
(* Model of the native host layer of Navi (packages/navi-app/src-tauri and *)
(* packages/navi-remix/src-tauri): the sidecar supervisor, the             *)
(* recent-projects cache, the window-label counter and the menu / window / *)
(* reopen event handlers of lib.rs.                                        *)
(***************************************************************************)
EXTENDS Naturals, Sequences, FiniteSets, TLC

(***************************************************************************)
(* Program constants (lib.rs:11-13, 37).                                   *)
(***************************************************************************)
BUNDLED_SERVER_PORT == 3011
BUNDLED_PTY_PORT == 3012
MAX_RECENT_PROJECTS == 10
CounterSeed == 1

(***************************************************************************)
(* Bounds of the model.                                                    *)
(***************************************************************************)
\* project ids the front end opens in the cache specification: 1..MaxProjects
MaxProjects == 11
\* projects 1..MaxRetouched are opened again by the front end, the others once
MaxRetouched == 1
\* the clock advances by at most this many seconds per run
MaxClock == 1
\* project ids used by the application-level specification
MaxMenuProjects == 1
\* window-creation calls (fetch_add on WINDOW_COUNTER) per run
MaxCalls == 3
\* window-creation calls in flight at the same time
MaxPending == 2
\* events of output that the backend process sends per run
MaxChunks == 2
\* projects opened from the menu of recent projects per run
MaxMenuOpens == 2

ProjectIds == 1..MaxProjects
MenuIds == 1..MaxMenuProjects
\* (name, path) pairs the front end passes to add_recent_project
Descriptors == << [name |-> "Alpha", path |-> "/a"], [name |-> "Beta", path |-> "/b"] >>

VARIABLES
  phase,           \* run(): "init" before setup, "running" after it, "aborted" after the panic
  sidecar,         \* SidecarState: "absent" (None) or "present" (Some(child))
  proc,            \* the backend process: "none", "running", "exited", or "failed" to start
  relay,           \* the output relay task: "notstarted" or "running"
  spawns,          \* number of successful sidecar_command.spawn() calls
  kills,           \* number of child.kill() calls
  liveAtKill,      \* the other windows that were live when child.kill() was called
  destroyed,       \* number of window-destroyed events handled so far (capped)
  recent,          \* RecentProjectsState: the VecDeque, front first
  now,             \* SystemTime::now() in seconds, as last read
  reply,           \* reply of the last command of the recent-projects cache
  lastCacheOp,     \* the last operations on the cache: "none", "touch", "clear", "list",
                   \* or "clear_list" (list() after clear() with no touch in between)
  opened,          \* projects 1..opened have been opened by the front end
  retouched,       \* a project that was opened before has been touched again
  touched,         \* the log of a test driver: its calls of add_recent_project since it
                   \* last cleared the cache, oldest first, of each project the last
                   \* call only; << >> when the driver is not used
  WINDOW_COUNTER,  \* the AtomicU32
  calls,           \* window-creation calls in flight
  windows,         \* live window sessions, in creation order
  issued,          \* every number and label handed out so far, in order, each with the
                   \* flag: a window-destroyed event was handled before it
  returned,        \* what the last finished window-creation call returned
  handled,         \* the reopen, recent-project or unrecognised menu event that the last
                   \* step handled, if it handled one
  badge,           \* DockBadgeState: << >> (None) or <<text>> (Some(text))
  ports,           \* ServerPorts: the managed port registry
  portsReply,      \* what the last call of get_server_ports returned, << >> before it
  locks,           \* the three Mutexes: the thread that holds each one, or "free"
  pc,              \* where each thread is inside a command or handler that it runs
                   \* statement by statement
  chan,            \* the events in the channel of the child, oldest first
  chanOpen,        \* the sending side of the channel exists
  out,             \* the lines printed to stdout by the relay task
  err,             \* the lines printed to stderr by the relay task
  received         \* the events that rx.recv() has returned so far, in order

sidecarVars == <<sidecar, proc, relay, spawns, kills, liveAtKill, destroyed>>
cacheVars == <<recent, reply, lastCacheOp, opened, retouched, touched>>
winVars == <<WINDOW_COUNTER, calls, windows, issued, returned>>
lockVars == <<locks, pc>>
relayVars == <<chan, chanOpen, out, err, received>>
restVars == <<badge, ports, portsReply, lockVars, relayVars>>
vars == <<phase, sidecarVars, cacheVars, now, winVars, handled, restVars>>

(***************************************************************************)
(* Recent-projects cache: the VecDeque operations of add_recent_project.   *)
(***************************************************************************)
Ids(s) == {s[i].id : i \in 1..Len(s)}

\* a retain that removes nothing
RetainNothing(s, id) == s

\* recent.retain(|p| p.id != id)
Retain(s, id) == SelectSeq(s, LAMBDA p : p.id # id)

\* an insertion at the back
PushBack(s, e) == s \o <<e>>

\* recent.push_front(e)
PushFront(s, e) == <<e>> \o s

\* a removal at the front
PopFront(s) == IF Len(s) = 0 THEN s ELSE SubSeq(s, 2, Len(s))

\* recent.pop_back()
PopBack(s) == IF Len(s) = 0 THEN s ELSE SubSeq(s, 1, Len(s) - 1)

\* while recent.len() > MAX_RECENT_PROJECTS { recent.pop_back(); }
RECURSIVE Trim(_)
Trim(s) == IF Len(s) > MAX_RECENT_PROJECTS THEN Trim(PopBack(s)) ELSE s

\* a touch that moves the entry of a known project to the front as it is
TouchMovesEntry(s, id, name, path, ts) ==
  LET old == SelectSeq(s, LAMBDA p : p.id = id)
  IN  Trim(PushFront(Retain(s, id),
                     IF old = << >>
                       THEN [id |-> id, name |-> name, path |-> path, timestamp |-> ts]
                       ELSE old[1]))

\* the body of add_recent_project under the lock
Touch(s, id, name, path, ts) ==
  Trim(PushFront(Retain(s, id),
                 [id |-> id, name |-> name, path |-> path, timestamp |-> ts]))

\* a clear that drops the oldest entry only
ClearOne(s) == IF Len(s) = 0 THEN s ELSE SubSeq(s, 1, Len(s) - 1)

\* state.0.lock().unwrap().clear()
Clear(s) == << >>

\* recent.iter().cloned().collect()
Snapshot(s) == [i \in 1..Len(s) |-> s[i]]

\* the descriptor under which project id is opened for the first time
DescriptorOf(id) == (id % Len(Descriptors)) + 1

\* a u32 is held as two 16-bit halves, hi * 2^16 + lo
Half == 2 ^ 16
U32(n) == [hi |-> n \div Half, lo |-> n % Half]
U32Max == [hi |-> Half - 1, lo |-> Half - 1]

NoReply == [cmd |-> "none", arg |-> 0, value |-> << >>]
NoReturn == [label |-> "", res |-> "none"]
NoEvent == [event |-> "none", arg |-> 0]

\* the main thread (event loop) and the threads that run commands
CmdThreads == {"cmd1", "cmd2"}
Threads == {"main"} \cup CmdThreads
Idle == [op |-> "idle", at |-> "idle", id |-> 0, name |-> "", path |-> ""]

Init ==
  /\ phase = "init"
  /\ sidecar = "absent"
  /\ proc = "none"
  /\ relay = "notstarted"
  /\ spawns = 0
  /\ kills = 0
  /\ liveAtKill = {}
  /\ destroyed = 0
  /\ recent = << >>
  /\ now = 0
  /\ reply = NoReply
  /\ lastCacheOp = "none"
  /\ opened = 0
  /\ retouched = FALSE
  /\ touched = << >>
  /\ WINDOW_COUNTER = U32(CounterSeed)
  /\ calls = {}
  /\ windows = << >>
  /\ issued = << >>
  /\ returned = NoReturn
  /\ handled = NoEvent
  /\ badge = << >>
  /\ ports = [server |-> BUNDLED_SERVER_PORT, pty |-> BUNDLED_PTY_PORT]
  /\ portsReply = << >>
  /\ locks = [sidecar |-> "free", recent |-> "free", badge |-> "free"]
  /\ pc = [t \in Threads |-> Idle]
  /\ chan = << >>
  /\ chanOpen = FALSE
  /\ out = << >>
  /\ err = << >>
  /\ received = << >>

(***************************************************************************)
(* run(): the setup hook.                                                  *)
(***************************************************************************)
\* the handle is dropped instead of stored
KeepHandle(h) == h

\* app.state::<SidecarState>().0.lock().unwrap().replace(child)
Replace(h) == "present"

\* sidecar_command.spawn() returned Ok: the handle is stored and the relay task
\* started on the receiving side of the channel of the child
SpawnOk ==
  /\ phase = "init"
  /\ sidecar' = Replace(sidecar)
  /\ proc' = "running"
  /\ spawns' = spawns + 1
  /\ relay' = "running"
  /\ chanOpen' = TRUE
  /\ phase' = "starting"
  /\ handled' = NoEvent
  /\ UNCHANGED <<kills, liveAtKill, destroyed, cacheVars, now, winVars, badge, ports, portsReply,
                 lockVars, chan, out, err, received>>

\* a setup hook that ignores the failure and returns Ok
SpawnFailedIgnored ==
  /\ phase = "init"
  /\ proc' = "failed"
  /\ phase' = "starting"
  /\ handled' = NoEvent
  /\ UNCHANGED <<sidecar, relay, spawns, kills, liveAtKill, destroyed, cacheVars, now, winVars, restVars>>

\* sidecar_command.spawn() returned Err: .expect("Failed to spawn sidecar") panics
SpawnFailed ==
  /\ phase = "init"
  /\ proc' = "failed"
  /\ phase' = "aborted"
  /\ handled' = NoEvent
  /\ UNCHANGED <<sidecar, relay, spawns, kills, liveAtKill, destroyed, cacheVars, now, winVars, restVars>>

Setup == SpawnOk \/ SpawnFailed

\* the window of the application's configuration, opened once setup has returned
InitialWindow == [label |-> "main", kind |-> "main", pid |-> 0]

PlatformInitialWindow ==
  /\ phase = "starting"
  /\ phase' = "running"
  /\ windows' = Append(windows, InitialWindow)
  /\ handled' = NoEvent
  /\ UNCHANGED <<sidecarVars, cacheVars, now, WINDOW_COUNTER, calls, issued, returned, restVars>>

\* the main thread is not inside create_new_window
MainIdle == pc["main"] = Idle /\ \A c \in calls : c.thread # "main"

\* a command can be invoked: the application runs and a webview exists
FrontEnd == phase = "running" /\ windows # << >>

(***************************************************************************)
(* Commands of the recent-projects cache.                                  *)
(***************************************************************************)
\* SystemTime::now().duration_since(UNIX_EPOCH).unwrap().as_secs(): the clock
\* has advanced by some seconds since it was last read
Clock(t) == t..MaxClock

add_recent_project(id, name, path) ==
  /\ now' \in Clock(now)
  /\ recent' = Touch(recent, id, name, path, now')
  /\ reply' = [cmd |-> "add", arg |-> id, value |-> << >>]
  /\ lastCacheOp' = "touch"
  /\ handled' = NoEvent
  /\ UNCHANGED <<phase, sidecarVars, touched, winVars, restVars>>

\* the front end calls addRecentProject: the next project of S that was never
\* opened, under its own descriptor, or a project opened before, under any
AddRecentProject(S) ==
  \E id \in S, d \in 1..Len(Descriptors) :
    /\ FrontEnd
    /\ id <= opened + 1
    /\ id = opened + 1 => d = DescriptorOf(id)
    /\ id <= opened => id <= MaxRetouched
    /\ opened' = IF id = opened + 1 THEN id ELSE opened
    /\ retouched' = (retouched \/ id <= opened)
    /\ add_recent_project(id, Descriptors[d].name, Descriptors[d].path)

get_recent_projects ==
  /\ FrontEnd
  /\ reply' = [cmd |-> "list", arg |-> 0, value |-> Snapshot(recent)]
  /\ lastCacheOp' = IF lastCacheOp \in {"clear", "clear_list"} THEN "clear_list" ELSE "list"
  /\ handled' = NoEvent
  /\ UNCHANGED <<phase, sidecarVars, recent, opened, retouched, touched, now, winVars, restVars>>

clear_recent_projects ==
  /\ FrontEnd
  /\ recent' = Clear(recent)
  /\ reply' = [cmd |-> "clear", arg |-> 0, value |-> << >>]
  /\ lastCacheOp' = "clear"
  /\ handled' = NoEvent
  /\ UNCHANGED <<phase, sidecarVars, opened, retouched, touched, now, winVars, restVars>>

\* on_menu_event: "clear_recent"
Menu_clear_recent ==
  /\ phase = "running"
  /\ MainIdle
  /\ recent' = Clear(recent)
  /\ lastCacheOp' = "clear"
  /\ handled' = NoEvent
  /\ UNCHANGED <<phase, sidecarVars, reply, opened, retouched, touched, now, winVars, restVars>>

(***************************************************************************)
(* The recent-projects cache on its own.                                   *)
(***************************************************************************)
NextCache ==
  \/ Setup
  \/ PlatformInitialWindow
  \/ AddRecentProject(ProjectIds)
  \/ get_recent_projects
  \/ clear_recent_projects
  \/ Menu_clear_recent

SpecCache == Init /\ [][NextCache]_vars

(***************************************************************************)
(* Window creation: create_new_window and open_project_in_new_window.      *)
(***************************************************************************)
\* u32 wrapping addition of 1
WrappingInc(c) ==
  IF c.lo + 1 < Half THEN [hi |-> c.hi, lo |-> c.lo + 1]
  ELSE IF c.hi + 1 < Half THEN [hi |-> c.hi + 1, lo |-> 0]
  ELSE [hi |-> 0, lo |-> 0]

\* a load without the store of the incremented value
FetchAddLost(c) == [old |-> c, new |-> c]

\* WINDOW_COUNTER.fetch_add(1, Ordering::SeqCst) on an AtomicU32: the previous
\* value is returned and the stored value wraps around on overflow
FetchAdd(c) == [old |-> c, new |-> WrappingInc(c)]

\* the decimal digits of a u32 ("{}" of format!)
RECURSIVE Decimal(_)
Decimal(c) ==
  IF c.hi = 0 THEN ToString(c.lo)
  ELSE LET t == (c.hi % 10) * Half + c.lo
       IN  Decimal([hi |-> c.hi \div 10, lo |-> t \div 10]) \o ToString(t % 10)

\* format!("main-{}", window_num), format!("project-{}", window_num)
Label(kind, num) == kind \o "-" \o Decimal(num)

Labels(ws) == {ws[i].label : i \in 1..Len(ws)}

RemoveAt(ws, i) == SubSeq(ws, 1, i - 1) \o SubSeq(ws, i + 1, Len(ws))

\* the first statements of both functions: take a number, format the label
BeginCreate(kind, pid, name, thread, from) ==
  /\ Len(issued) < MaxCalls
  /\ LET r == FetchAdd(WINDOW_COUNTER) IN
       /\ WINDOW_COUNTER' = r.new
       /\ calls' = (calls \ from) \cup
                     {[stage |-> "build", kind |-> kind, num |-> r.old,
                       label |-> Label(kind, r.old), pid |-> pid, name |-> name,
                       thread |-> thread]}
       /\ issued' = Append(issued, [num |-> r.old, label |-> Label(kind, r.old),
                                    after |-> destroyed > 0])
  /\ UNCHANGED <<windows, returned>>

\* a build() failure that gives the number of the call back to the counter
BuildRollsBack ==
  \E c \in calls, ok \in BOOLEAN :
    /\ c.stage = "build"
    /\ calls' = calls \ {c}
    /\ windows' = IF ok THEN Append(windows, [label |-> c.label, kind |-> c.kind, pid |-> c.pid])
                        ELSE windows
    /\ returned' = [label |-> c.label, res |-> IF ok THEN "Ok" ELSE "Err"]
    /\ WINDOW_COUNTER' = IF ok THEN WINDOW_COUNTER ELSE c.num
    /\ handled' = NoEvent
    /\ UNCHANGED <<phase, sidecarVars, cacheVars, now, issued, restVars>>

\* WebviewWindowBuilder::new(..).build().map_err(|e| e.to_string())?; Ok(())
Build ==
  \E c \in calls, ok \in BOOLEAN :
    /\ c.stage = "build"
    /\ calls' = calls \ {c}
    /\ windows' = IF ok THEN Append(windows, [label |-> c.label, kind |-> c.kind, pid |-> c.pid])
                        ELSE windows
    /\ returned' = [label |-> c.label, res |-> IF ok THEN "Ok" ELSE "Err"]
    /\ handled' = NoEvent
    /\ UNCHANGED <<phase, sidecarVars, cacheVars, now, WINDOW_COUNTER, issued, restVars>>

\* on_menu_event: "new_window"
Menu_new_window ==
  /\ phase = "running"
  /\ MainIdle
  /\ Cardinality(calls) < MaxPending
  /\ BeginCreate("main", 0, "", "main", {})
  /\ handled' = NoEvent
  /\ UNCHANGED <<phase, sidecarVars, cacheVars, now, restVars>>

\* new_window_handler of the dock menu
Dock_new_window ==
  /\ phase = "running"
  /\ MainIdle
  /\ Cardinality(calls) < MaxPending
  /\ BeginCreate("main", 0, "", "main", {})
  /\ handled' = NoEvent
  /\ UNCHANGED <<phase, sidecarVars, cacheVars, now, restVars>>

\* a reopen handler that does not look at has_visible_windows
ReopenAlways ==
  \E has_visible_windows \in BOOLEAN :
    /\ phase = "running"
    /\ MainIdle
    /\ has_visible_windows => windows # << >>
    /\ handled' = [event |-> IF has_visible_windows THEN "reopen_visible" ELSE "reopen_hidden",
                    arg |-> 0]
    /\ Cardinality(calls) < MaxPending
    /\ BeginCreate("main", 0, "", "main", {})
    /\ UNCHANGED <<phase, sidecarVars, cacheVars, now, restVars>>

\* RunEvent::Reopen { has_visible_windows, .. }
Reopen ==
  \E has_visible_windows \in BOOLEAN :
    /\ phase = "running"
    /\ MainIdle
    /\ has_visible_windows => windows # << >>
    /\ handled' = [event |-> IF has_visible_windows THEN "reopen_visible" ELSE "reopen_hidden",
                    arg |-> 0]
    /\ IF ~has_visible_windows
         THEN /\ Cardinality(calls) < MaxPending
              /\ BeginCreate("main", 0, "", "main", {})
         ELSE UNCHANGED winVars
    /\ UNCHANGED <<phase, sidecarVars, cacheVars, now, restVars>>

\* a find that compares with the identifier of the menu item, prefix included
FindUnstripped(s, id) == << >>

\* recent.iter().find(|p| p.id == project_id)
Find(s, id) ==
  IF id \in Ids(s)
    THEN LET i == CHOOSE k \in 1..Len(s) : s[k].id = id /\ \A j \in 1..(k - 1) : s[j].id # id
         IN  <<s[i]>>
    ELSE << >>

\* an open_project_in_new_window that looks the project up in the cache first
open_project_if_recent ==
  \E project_id \in MenuIds, d \in 1..Len(Descriptors) :
    /\ FrontEnd
    /\ Find(recent, project_id) # << >>
    /\ Cardinality(calls) < MaxPending
    /\ BeginCreate("project", project_id, Descriptors[d].name, "async", {})
    /\ handled' = NoEvent
    /\ UNCHANGED <<phase, sidecarVars, cacheVars, now, restVars>>

\* the command openProjectInNewWindow, invoked by the front end
open_project_in_new_window ==
  \E project_id \in MenuIds, d \in 1..Len(Descriptors) :
    /\ FrontEnd
    /\ Cardinality(calls) < MaxPending
    /\ BeginCreate("project", project_id, Descriptors[d].name, "async", {})
    /\ handled' = NoEvent
    /\ UNCHANGED <<phase, sidecarVars, cacheVars, now, restVars>>

\* a "recent_project_" arm that also touches the entry it has found
Menu_recent_project_touches ==
  \E project_id \in MenuIds :
    /\ phase = "running"
    /\ MainIdle
    /\ LET found == Find(recent, project_id) IN
         IF found # << >>
           THEN /\ Len(issued) + Cardinality(calls) < MaxMenuOpens
                /\ handled' = [event |-> "recent_found", arg |-> project_id]
                /\ calls' = calls \cup
                     {[stage |-> "spawned", kind |-> "project", num |-> U32(0), label |-> "",
                       pid |-> found[1].id, name |-> found[1].name, thread |-> "async"]}
                /\ now' \in Clock(now)
                /\ recent' = Touch(recent, found[1].id, found[1].name, found[1].path, now')
                /\ UNCHANGED <<WINDOW_COUNTER, windows, issued, returned>>
           ELSE /\ handled' = [event |-> "recent_missing", arg |-> project_id]
                /\ UNCHANGED <<winVars, recent, now>>
    /\ UNCHANGED <<phase, sidecarVars, reply, lastCacheOp, opened, retouched, touched, restVars>>

\* on_menu_event: id.starts_with("recent_project_")
Menu_recent_project ==
  \E project_id \in MenuIds :
    /\ phase = "running"
    /\ MainIdle
    /\ LET found == Find(recent, project_id) IN
         IF found # << >>
           THEN /\ Len(issued) + Cardinality(calls) < MaxMenuOpens
                /\ handled' = [event |-> "recent_found", arg |-> project_id]
                /\ calls' = calls \cup
                     {[stage |-> "spawned", kind |-> "project", num |-> U32(0), label |-> "",
                       pid |-> found[1].id, name |-> found[1].name, thread |-> "async"]}
                /\ UNCHANGED <<WINDOW_COUNTER, windows, issued, returned>>
           ELSE /\ handled' = [event |-> "recent_missing", arg |-> project_id]
                /\ UNCHANGED winVars
    /\ UNCHANGED <<phase, sidecarVars, cacheVars, now, restVars>>

\* the task spawned by the menu handler starts open_project_in_new_window
TaskStart ==
  \E c \in calls :
    /\ c.stage = "spawned"
    /\ BeginCreate("project", c.pid, c.name, "async", {c})
    /\ handled' = NoEvent
    /\ UNCHANGED <<phase, sidecarVars, cacheVars, now, restVars>>

\* on_menu_event: "check_updates", "help_docs", "report_issue"
Menu_other ==
  /\ phase = "running"
  /\ MainIdle
  /\ handled' = NoEvent
  /\ UNCHANGED <<phase, sidecarVars, cacheVars, now, winVars, restVars>>

\* a default arm that treats an unrecognised identifier as "new_window"
Menu_unknown_opens_window ==
  /\ phase = "running"
  /\ MainIdle
  /\ Cardinality(calls) < MaxPending
  /\ BeginCreate("main", 0, "", "main", {})
  /\ handled' = [event |-> "unknown", arg |-> 0]
  /\ UNCHANGED <<phase, sidecarVars, cacheVars, now, restVars>>

\* on_menu_event: the `_ => {}` arm, an identifier that matches no other arm
Menu_unknown ==
  /\ phase = "running"
  /\ MainIdle
  /\ handled' = [event |-> "unknown", arg |-> 0]
  /\ UNCHANGED <<phase, sidecarVars, cacheVars, now, winVars, restVars>>

(***************************************************************************)
(* Commands of the port registry and of the dock badge.                    *)
(***************************************************************************)
\* the two ports in the wrong order
PortsSwapped(state) == <<state.pty, state.server>>

\* (state.server, state.pty)
Ports(state) == <<state.server, state.pty>>

get_server_ports ==
  /\ FrontEnd
  /\ portsReply' = Ports(ports)
  /\ handled' = NoEvent
  /\ UNCHANGED <<phase, sidecarVars, cacheVars, now, winVars, badge, ports, lockVars, relayVars>>

\* the texts the front end passes to set_dock_badge: None or Some(text)
Badges == {<< >>, <<"3">>}

\* set_dock_badge on macOS: *state.0.lock().unwrap() = badge.clone(), then the
\* label of the dock tile is set, which is state of the platform
set_dock_badge ==
  \E b \in Badges :
    /\ FrontEnd
    /\ badge' = b
    /\ handled' = NoEvent
    /\ UNCHANGED <<phase, sidecarVars, cacheVars, now, winVars, ports, portsReply, lockVars, relayVars>>

(***************************************************************************)
(* on_window_event: WindowEvent::Destroyed.                                *)
(***************************************************************************)
\* the handle is read and left in place
TakeKeep(h) == [taken |-> h, left |-> h]

\* the handle is cleared and the handler sees none
TakeNothing(h) == [taken |-> "absent", left |-> "absent"]

\* Option::take(): the value moved out and what is left
Take(h) == [taken |-> h, left |-> "absent"]

\* the number of a destroyed window is given back
CounterReset(c) == U32(CounterSeed)

\* the handler of WindowEvent::Destroyed does not touch WINDOW_COUNTER
AfterDestroyed(c) == c

\* child.kill(): the process after a successful or a failed kill
Kill(p, ok) == IF ok THEN "exited" ELSE p

\* a handler that puts the handle back when child.kill() has failed
OnWindowDestroyed_retries ==
  \E i \in 1..Len(windows), killOk \in BOOLEAN :
    /\ phase = "running"
    /\ MainIdle
    /\ windows' = RemoveAt(windows, i)
    /\ destroyed' = destroyed + 1
    /\ WINDOW_COUNTER' = AfterDestroyed(WINDOW_COUNTER)
    /\ LET t == Take(sidecar) IN
         /\ sidecar' = IF t.taken = "present" /\ ~killOk THEN t.taken ELSE t.left
         /\ IF t.taken = "present"
              THEN /\ kills' = kills + 1
                   /\ proc' = Kill(proc, killOk)
                   /\ liveAtKill' = Labels(windows')
              ELSE /\ killOk
                   /\ UNCHANGED <<kills, proc, liveAtKill>>
    /\ handled' = NoEvent
    /\ UNCHANGED <<phase, relay, spawns, cacheVars, now, calls, issued, returned, restVars>>

OnWindowDestroyed ==
  \E i \in 1..Len(windows), killOk \in BOOLEAN :
    /\ phase = "running"
    /\ MainIdle
    /\ windows' = RemoveAt(windows, i)
    /\ destroyed' = destroyed + 1
    /\ WINDOW_COUNTER' = AfterDestroyed(WINDOW_COUNTER)
    /\ LET t == Take(sidecar) IN
         /\ sidecar' = t.left
         /\ IF t.taken = "present"
              THEN /\ kills' = kills + 1
                   /\ proc' = Kill(proc, killOk)
                   /\ liveAtKill' = Labels(windows')
              ELSE /\ killOk
                   /\ UNCHANGED <<kills, proc, liveAtKill>>
    /\ handled' = NoEvent
    /\ UNCHANGED <<phase, relay, spawns, cacheVars, now, calls, issued, returned, restVars>>

\* the backend process exits on its own
ChildExit ==
  /\ proc = "running"
  /\ proc' = "exited"
  /\ handled' = NoEvent
  /\ UNCHANGED <<phase, sidecar, relay, spawns, kills, liveAtKill, destroyed, cacheVars, now, winVars, restVars>>

(***************************************************************************)
(* Windows and sidecar: setup, window creation, window and reopen events.  *)
(***************************************************************************)
Next ==
  \/ Setup
  \/ PlatformInitialWindow
  \/ Menu_new_window
  \/ Dock_new_window
  \/ Reopen
  \/ open_project_in_new_window
  \/ Build
  \/ Menu_other
  \/ OnWindowDestroyed
  \/ ChildExit

Spec == Init /\ [][Next]_vars

(***************************************************************************)
(* The menu of recent projects: the cache is driven with the projects of   *)
(* MenuIds, the menu opens them, the spawned tasks create their windows.   *)
(***************************************************************************)
NextMenu ==
  \/ Setup
  \/ PlatformInitialWindow
  \/ AddRecentProject(MenuIds)
  \/ clear_recent_projects
  \/ Menu_clear_recent
  \/ Menu_recent_project
  \/ TaskStart
  \/ Build

SpecMenu == Init /\ [][NextMenu]_vars

(***************************************************************************)
(* The commands of the front end: the cache, the port registry and         *)
(* openProjectInNewWindow.                                                 *)
(***************************************************************************)
NextCommands ==
  \/ Setup
  \/ PlatformInitialWindow
  \/ AddRecentProject(MenuIds)
  \/ clear_recent_projects
  \/ open_project_in_new_window
  \/ Build
  \/ get_server_ports

SpecCommands == Init /\ [][NextCommands]_vars

(***************************************************************************)
(* The menu next to every piece of state of the host: sidecar handle,      *)
(* cache, counter, windows and dock badge.                                 *)
(***************************************************************************)
NextHost ==
  \/ Setup
  \/ PlatformInitialWindow
  \/ AddRecentProject(MenuIds)
  \/ set_dock_badge
  \/ Menu_new_window
  \/ Build
  \/ Menu_unknown
  \/ OnWindowDestroyed

SpecHost == Init /\ [][NextHost]_vars

(***************************************************************************)
(* The commands of the cache statement by statement, each thread between   *)
(* Mutex::lock() and the drop of the guard.                                *)
(***************************************************************************)
\* a lock() that does not wait for the holder
CanLockHeld(holder) == TRUE

\* Mutex::lock() returns once no thread holds the mutex
CanLock(holder) == holder = "free"

Held(t) == {m \in DOMAIN locks : locks[m] = t}

\* the project that the threads open again
Reopened == {1}

\* add_recent_project: let mut recent = state.0.lock().unwrap(); the call is
\* for the next project of S that was never opened, under its own descriptor,
\* or for a project of Reopened, under any
add_recent_project_lock(t, S) ==
  \E id \in S, d \in 1..Len(Descriptors) :
    /\ FrontEnd
    /\ pc[t] = Idle
    /\ id <= opened + 1
    /\ id = opened + 1 => d = DescriptorOf(id)
    /\ id <= opened => id \in Reopened
    /\ CanLock(locks.recent)
    /\ locks' = [locks EXCEPT !.recent = t]
    /\ pc' = [pc EXCEPT ![t] = [op |-> "add", at |-> "retain", id |-> id,
                                 name |-> Descriptors[d].name, path |-> Descriptors[d].path]]
    /\ opened' = IF id = opened + 1 THEN id ELSE opened
    /\ retouched' = (retouched \/ id <= opened)
    /\ handled' = NoEvent
    /\ UNCHANGED <<phase, sidecarVars, recent, reply, lastCacheOp, touched, now, winVars,
                   badge, ports, portsReply, relayVars>>

\* recent.retain(|p| p.id != id)
add_recent_project_retain(t) ==
  /\ pc[t].op = "add" /\ pc[t].at = "retain"
  /\ recent' = Retain(recent, pc[t].id)
  /\ pc' = [pc EXCEPT ![t].at = "push"]
  /\ handled' = NoEvent
  /\ UNCHANGED <<phase, sidecarVars, reply, lastCacheOp, opened, retouched, touched, now, winVars,
                 badge, ports, portsReply, locks, relayVars>>

\* recent.push_front(RecentProject { id, name, path, timestamp: now })
add_recent_project_push(t) ==
  /\ pc[t].op = "add" /\ pc[t].at = "push"
  /\ now' \in Clock(now)
  /\ recent' = PushFront(recent, [id |-> pc[t].id, name |-> pc[t].name,
                                   path |-> pc[t].path, timestamp |-> now'])
  /\ pc' = [pc EXCEPT ![t].at = "trim"]
  /\ handled' = NoEvent
  /\ UNCHANGED <<phase, sidecarVars, reply, lastCacheOp, opened, retouched, touched, winVars,
                 badge, ports, portsReply, locks, relayVars>>

\* while recent.len() > MAX_RECENT_PROJECTS { recent.pop_back(); } Ok(()): one
\* turn of the loop, or the return, which drops the guard
add_recent_project_trim(t) ==
  /\ pc[t].op = "add" /\ pc[t].at = "trim"
  /\ IF Len(recent) > MAX_RECENT_PROJECTS
       THEN /\ recent' = PopBack(recent)
            /\ UNCHANGED <<reply, lastCacheOp, locks, pc>>
       ELSE /\ reply' = [cmd |-> "add", arg |-> pc[t].id, value |-> << >>]
            /\ lastCacheOp' = "touch"
            /\ locks' = [locks EXCEPT !.recent = "free"]
            /\ pc' = [pc EXCEPT ![t] = Idle]
            /\ UNCHANGED recent
  /\ handled' = NoEvent
  /\ UNCHANGED <<phase, sidecarVars, opened, retouched, touched, now, winVars, badge, ports, portsReply, relayVars>>

\* get_recent_projects: let recent = state.0.lock().unwrap()
get_recent_projects_lock(t) ==
  /\ FrontEnd
  /\ pc[t] = Idle
  /\ CanLock(locks.recent)
  /\ locks' = [locks EXCEPT !.recent = t]
  /\ pc' = [pc EXCEPT ![t] = [Idle EXCEPT !.op = "list", !.at = "collect"]]
  /\ handled' = NoEvent
  /\ UNCHANGED <<phase, sidecarVars, cacheVars, now, winVars, badge, ports, portsReply, relayVars>>

\* Ok(recent.iter().cloned().collect()), and the guard is dropped
get_recent_projects_collect(t) ==
  /\ pc[t].op = "list" /\ pc[t].at = "collect"
  /\ reply' = [cmd |-> "list", arg |-> 0, value |-> Snapshot(recent)]
  /\ lastCacheOp' = IF lastCacheOp \in {"clear", "clear_list"} THEN "clear_list" ELSE "list"
  /\ locks' = [locks EXCEPT !.recent = "free"]
  /\ pc' = [pc EXCEPT ![t] = Idle]
  /\ handled' = NoEvent
  /\ UNCHANGED <<phase, sidecarVars, recent, opened, retouched, touched, now, winVars,
                 badge, ports, portsReply, relayVars>>

\* clear_recent_projects: state.0.lock().unwrap()
clear_recent_projects_lock(t) ==
  /\ FrontEnd
  /\ pc[t] = Idle
  /\ CanLock(locks.recent)
  /\ locks' = [locks EXCEPT !.recent = t]
  /\ pc' = [pc EXCEPT ![t] = [Idle EXCEPT !.op = "clear", !.at = "clear"]]
  /\ handled' = NoEvent
  /\ UNCHANGED <<phase, sidecarVars, cacheVars, now, winVars, badge, ports, portsReply, relayVars>>

\* .clear(); the guard is dropped at the end of the statement
clear_recent_projects_clear(t) ==
  /\ pc[t].op = "clear" /\ pc[t].at = "clear"
  /\ recent' = Clear(recent)
  /\ reply' = [cmd |-> "clear", arg |-> 0, value |-> << >>]
  /\ lastCacheOp' = "clear"
  /\ locks' = [locks EXCEPT !.recent = "free"]
  /\ pc' = [pc EXCEPT ![t] = Idle]
  /\ handled' = NoEvent
  /\ UNCHANGED <<phase, sidecarVars, opened, retouched, touched, now, winVars, badge, ports, portsReply, relayVars>>

NextThreads ==
  \/ Setup
  \/ PlatformInitialWindow
  \/ \E t \in CmdThreads : add_recent_project_lock(t, ProjectIds)
  \/ \E t \in CmdThreads : add_recent_project_retain(t)
  \/ \E t \in CmdThreads : add_recent_project_push(t)
  \/ \E t \in CmdThreads : add_recent_project_trim(t)
  \/ \E t \in CmdThreads : get_recent_projects_lock(t)
  \/ \E t \in CmdThreads : get_recent_projects_collect(t)
  \/ \E t \in CmdThreads : clear_recent_projects_lock(t)
  \/ \E t \in CmdThreads : clear_recent_projects_clear(t)

SpecThreads == Init /\ [][NextThreads]_vars

(***************************************************************************)
(* The handlers of the main thread and set_dock_badge statement by         *)
(* statement, next to the commands of the cache.                           *)
(***************************************************************************)
\* on_window_event, Destroyed: window.state::<SidecarState>().0.lock().unwrap().take()
\* is the scrutinee of the if let, so its guard lives to the end of the if let
on_window_event_take ==
  \E i \in 1..Len(windows) :
    /\ phase = "running"
    /\ MainIdle
    /\ CanLock(locks.sidecar)
    /\ windows' = RemoveAt(windows, i)
    /\ destroyed' = destroyed + 1
    /\ WINDOW_COUNTER' = AfterDestroyed(WINDOW_COUNTER)
    /\ LET t == Take(sidecar) IN
         /\ sidecar' = t.left
         /\ IF t.taken = "present"
              THEN /\ locks' = [locks EXCEPT !.sidecar = "main"]
                   /\ pc' = [pc EXCEPT !["main"] = [Idle EXCEPT !.op = "destroyed", !.at = "kill"]]
              ELSE UNCHANGED <<locks, pc>>
    /\ handled' = NoEvent
    /\ UNCHANGED <<phase, proc, relay, spawns, kills, liveAtKill, cacheVars, now, calls,
                   issued, returned, badge, ports, portsReply, relayVars>>

\* let _ = child.kill(); then the if let ends and the guard is dropped
on_window_event_kill ==
  \E killOk \in BOOLEAN :
    /\ pc["main"].op = "destroyed" /\ pc["main"].at = "kill"
    /\ kills' = kills + 1
    /\ proc' = Kill(proc, killOk)
    /\ liveAtKill' = Labels(windows)
    /\ locks' = [locks EXCEPT !.sidecar = "free"]
    /\ pc' = [pc EXCEPT !["main"] = Idle]
    /\ handled' = NoEvent
    /\ UNCHANGED <<phase, sidecar, relay, spawns, destroyed, cacheVars, now, winVars,
                   badge, ports, portsReply, relayVars>>

\* "recent_project_": let recent = state.0.lock().unwrap(); recent.iter().find(..)
Menu_recent_project_find ==
  \E project_id \in MenuIds :
    /\ phase = "running"
    /\ MainIdle
    /\ CanLock(locks.recent)
    /\ LET found == Find(recent, project_id) IN
         IF found # << >>
           THEN /\ Len(issued) + Cardinality(calls) < MaxMenuOpens
                /\ locks' = [locks EXCEPT !.recent = "main"]
                /\ pc' = [pc EXCEPT !["main"] = [op |-> "recent", at |-> "spawn",
                                                 id |-> found[1].id, name |-> found[1].name,
                                                 path |-> ""]]
                /\ handled' = NoEvent
           ELSE /\ handled' = [event |-> "recent_missing", arg |-> project_id]
                /\ UNCHANGED <<locks, pc>>
    /\ UNCHANGED <<phase, sidecarVars, cacheVars, now, winVars, badge, ports, portsReply, relayVars>>

\* tauri::async_runtime::spawn(..); the guard `recent` is dropped at the end of the arm
Menu_recent_project_spawn ==
  /\ pc["main"].op = "recent" /\ pc["main"].at = "spawn"
  /\ calls' = calls \cup
       {[stage |-> "spawned", kind |-> "project", num |-> U32(0), label |-> "",
         pid |-> pc["main"].id, name |-> pc["main"].name, thread |-> "async"]}
  /\ handled' = [event |-> "recent_found", arg |-> pc["main"].id]
  /\ locks' = [locks EXCEPT !.recent = "free"]
  /\ pc' = [pc EXCEPT !["main"] = Idle]
  /\ UNCHANGED <<phase, sidecarVars, cacheVars, now, WINDOW_COUNTER, windows, issued, returned,
                 badge, ports, portsReply, relayVars>>

\* set_dock_badge: state.0.lock().unwrap()
set_dock_badge_lock(t) ==
  \E b \in Badges :
    /\ FrontEnd
    /\ pc[t] = Idle
    /\ CanLock(locks.badge)
    /\ locks' = [locks EXCEPT !.badge = t]
    /\ pc' = [pc EXCEPT ![t] = [Idle EXCEPT !.op = "badge", !.at = "store",
                                              !.name = IF b = << >> THEN "" ELSE b[1],
                                              !.id = Len(b)]]
    /\ handled' = NoEvent
    /\ UNCHANGED <<phase, sidecarVars, cacheVars, now, winVars, badge, ports, portsReply, relayVars>>

\* *guard = badge.clone(); the guard is dropped at the end of the statement
set_dock_badge_store(t) ==
  /\ pc[t].op = "badge" /\ pc[t].at = "store"
  /\ badge' = IF pc[t].id = 0 THEN << >> ELSE <<pc[t].name>>
  /\ locks' = [locks EXCEPT !.badge = "free"]
  /\ pc' = [pc EXCEPT ![t] = Idle]
  /\ handled' = NoEvent
  /\ UNCHANGED <<phase, sidecarVars, cacheVars, now, winVars, ports, portsReply, relayVars>>

NextLocks ==
  \/ Setup
  \/ PlatformInitialWindow
  \/ \E t \in CmdThreads : add_recent_project_lock(t, MenuIds)
  \/ \E t \in CmdThreads : add_recent_project_retain(t)
  \/ \E t \in CmdThreads : add_recent_project_push(t)
  \/ \E t \in CmdThreads : add_recent_project_trim(t)
  \/ \E t \in CmdThreads : get_recent_projects_lock(t)
  \/ \E t \in CmdThreads : get_recent_projects_collect(t)
  \/ \E t \in CmdThreads : set_dock_badge_lock(t)
  \/ \E t \in CmdThreads : set_dock_badge_store(t)
  \/ on_window_event_take
  \/ on_window_event_kill
  \/ Menu_recent_project_find
  \/ Menu_recent_project_spawn
  \/ TaskStart
  \/ Build

SpecLocks == Init /\ [][NextLocks]_vars

(***************************************************************************)
(* The backend process, its channel of events and the relay task of setup. *)
(***************************************************************************)
\* a chunk of bytes that is no valid UTF-8
Invalid == "<ff>"

\* the chunks of bytes the backend writes
Chunks == {"a", Invalid}

\* String::from_utf8_lossy(&line): the invalid bytes become U+FFFD
Lossy(c) == IF c = Invalid THEN "<U+FFFD>" ELSE c

\* the backend writes to stdout or stderr, or the plugin reports an error:
\* CommandEvent::Stdout(line), Stderr(line) or Error(text) enters the channel
ChildOutput ==
  \E k \in {"Stdout", "Stderr", "Error"}, c \in Chunks :
    /\ proc = "running"
    /\ chanOpen
    /\ Len(received) + Len(chan) < MaxChunks
    /\ chan' = Append(chan, [kind |-> k, data |-> c])
    /\ handled' = NoEvent
    /\ UNCHANGED <<phase, sidecarVars, cacheVars, now, winVars, badge, ports, portsReply,
                   lockVars, chanOpen, out, err, received>>

\* the backend has exited: CommandEvent::Terminated enters the channel and the
\* sending side is dropped
ChannelClose ==
  /\ proc = "exited"
  /\ chanOpen
  /\ chan' = Append(chan, [kind |-> "Terminated", data |-> ""])
  /\ chanOpen' = FALSE
  /\ handled' = NoEvent
  /\ UNCHANGED <<phase, sidecarVars, cacheVars, now, winVars, badge, ports, portsReply,
                 lockVars, out, err, received>>

\* an arm that prints the event whatever its kind is
ForwardAny(sink, e, kind, prefix) == Append(sink, prefix \o Lossy(e.data))

\* one arm of the match: println!("[sidecar stdout] {}", from_utf8_lossy(&line))
\* for the event of its kind; `_ => {}` for every other
Forward(sink, e, kind, prefix) ==
  IF e.kind = kind THEN Append(sink, prefix \o Lossy(e.data)) ELSE sink

\* a recv() that returns None as soon as the channel is empty
RecvNoneWhenEmpty(ch, open) == ch = << >>

\* rx.recv().await returns None: the channel is closed and empty
RecvNone(ch, open) == ch = << >> /\ ~open

\* while let Some(event) = rx.recv().await { match event { .. } }: one turn
RelayRecv ==
  /\ relay = "running"
  /\ chan # << >>
  /\ chan' = Tail(chan)
  /\ received' = Append(received, Head(chan))
  /\ out' = Forward(out, Head(chan), "Stdout", "[sidecar stdout] ")
  /\ err' = Forward(err, Head(chan), "Stderr", "[sidecar stderr] ")
  /\ handled' = NoEvent
  /\ UNCHANGED <<phase, sidecarVars, cacheVars, now, winVars, badge, ports, portsReply,
                 lockVars, chanOpen>>

\* rx.recv().await returned None: the loop and the task end
RelayEnd ==
  /\ relay = "running"
  /\ RecvNone(chan, chanOpen)
  /\ relay' = "ended"
  /\ handled' = NoEvent
  /\ UNCHANGED <<phase, sidecar, proc, spawns, kills, liveAtKill, destroyed, cacheVars, now,
                 winVars, restVars>>

NextRelay ==
  \/ Setup
  \/ PlatformInitialWindow
  \/ ChildOutput
  \/ ChildExit
  \/ ChannelClose
  \/ RelayRecv
  \/ RelayEnd
  \/ Menu_unknown
  \/ OnWindowDestroyed

\* the async runtime runs the relay task whenever it can take a turn
SpecRelay ==
  Init /\ [][NextRelay]_vars /\ WF_vars(RelayRecv) /\ WF_vars(RelayEnd)

(***************************************************************************)
(* The cache under a test driver that logs what it asks for: the commands  *)
(* of the cache as above, and the log next to them.                        *)
(***************************************************************************)
\* the driver has called add_recent_project(id, name, path): the call is
\* logged and the earlier call for the same project forgotten
LogTouch(log, id, name, path) ==
  SelectSeq(log, LAMBDA c : c.id # id) \o <<[id |-> id, name |-> name, path |-> path]>>

\* the driver has called clear_recent_projects: the log starts again
LogClear(log) == << >>

\* add_recent_project, called as by AddRecentProject(S)
DriverTouch(S) ==
  \E id \in S, d \in 1..Len(Descriptors) :
    /\ FrontEnd
    /\ id <= opened + 1
    /\ id = opened + 1 => d = DescriptorOf(id)
    /\ id <= opened => id <= MaxRetouched
    /\ opened' = IF id = opened + 1 THEN id ELSE opened
    /\ retouched' = (retouched \/ id <= opened)
    /\ now' \in Clock(now)
    /\ recent' = Touch(recent, id, Descriptors[d].name, Descriptors[d].path, now')
    /\ reply' = [cmd |-> "add", arg |-> id, value |-> << >>]
    /\ lastCacheOp' = "touch"
    /\ touched' = LogTouch(touched, id, Descriptors[d].name, Descriptors[d].path)
    /\ handled' = NoEvent
    /\ UNCHANGED <<phase, sidecarVars, winVars, restVars>>

\* clear_recent_projects
DriverClear ==
  /\ FrontEnd
  /\ recent' = Clear(recent)
  /\ reply' = [cmd |-> "clear", arg |-> 0, value |-> << >>]
  /\ lastCacheOp' = "clear"
  /\ touched' = LogClear(touched)
  /\ handled' = NoEvent
  /\ UNCHANGED <<phase, sidecarVars, opened, retouched, now, winVars, restVars>>

NextDriver ==
  \/ Setup
  \/ PlatformInitialWindow
  \/ DriverTouch(ProjectIds)
  \/ get_recent_projects
  \/ DriverClear

SpecDriver == Init /\ [][NextDriver]_vars

(***************************************************************************)
(* A long-lived process: WINDOW_COUNTER close to the largest u32.          *)
(***************************************************************************)
\* the number and the label of the last window-creation call before the
\* counter holds u32::MAX
LastBeforeMax == [hi |-> Half - 1, lo |-> Half - 2]

\* the process after setup, the initial window and 2^32 - 2 calls of
\* create_new_window from the menu, the last of which failed in build():
\* starting from AtomicU32::new(1), the counter holds u32::MAX. Of the numbers
\* handed out so far, issued keeps the last one.
InitLate ==
  /\ phase = "running"
  /\ sidecar = "present"
  /\ proc = "running"
  /\ relay = "running"
  /\ spawns = 1
  /\ kills = 0
  /\ liveAtKill = {}
  /\ destroyed = 0
  /\ recent = << >>
  /\ now = 0
  /\ reply = NoReply
  /\ lastCacheOp = "none"
  /\ opened = 0
  /\ retouched = FALSE
  /\ touched = << >>
  /\ WINDOW_COUNTER = FetchAdd(LastBeforeMax).new
  /\ calls = {}
  /\ windows = <<InitialWindow>>
  /\ issued = <<[num |-> LastBeforeMax, label |-> Label("main", LastBeforeMax), after |-> FALSE]>>
  /\ returned = [label |-> Label("main", LastBeforeMax), res |-> "Err"]
  /\ handled = NoEvent
  /\ badge = << >>
  /\ ports = [server |-> BUNDLED_SERVER_PORT, pty |-> BUNDLED_PTY_PORT]
  /\ portsReply = << >>
  /\ locks = [sidecar |-> "free", recent |-> "free", badge |-> "free"]
  /\ pc = [t \in Threads |-> Idle]
  /\ chan = << >>
  /\ chanOpen = TRUE
  /\ out = << >>
  /\ err = << >>
  /\ received = << >>

NextLate ==
  \/ Menu_new_window
  \/ Dock_new_window
  \/ Reopen
  \/ open_project_in_new_window
  \/ Build
  \/ OnWindowDestroyed

SpecLate == InitLate /\ [][NextLate]_vars

(***************************************************************************)
(* Properties of the recent-projects cache (checked under SpecCache).      *)
(***************************************************************************)
NoDuplicateIds(s) == \A i, j \in 1..Len(s) : s[i].id = s[j].id => i = j

\* the step is a call of add_recent_project for project id (one that changes
\* the cache or the reply: the cache commands write reply and lastCacheOp)
IsTouch(id) ==
  /\ lastCacheOp' = "touch"
  /\ reply'.cmd = "add"
  /\ reply'.arg = id
  /\ <<recent, reply>>' # <<recent, reply>>

\* C1: whatever addRecentProject, clearRecentProjects and the "clear_recent"
\* menu event have done so far, the cache holds at most MAX_RECENT_PROJECTS
\* entries and no two of them have the same id.
C1_BoundedNoDuplicates ==
  /\ Len(recent) <= MAX_RECENT_PROJECTS
  /\ NoDuplicateIds(recent)

\* the cache is full after an eviction and a re-touch have happened
C1_Witness ==
  /\ Len(recent) = MAX_RECENT_PROJECTS
  /\ opened = MaxProjects
  /\ retouched
  /\ lastCacheOp = "touch"

\* C2: a touch of an id that is in the cache leaves the size unchanged, puts
\* the entry of that id at the front and keeps the order of all other entries,
\* whatever the timestamps of the entries are.
C2_TouchExistingMovesToFront ==
  [][\A id \in ProjectIds :
       (IsTouch(id) /\ id \in Ids(recent)) =>
          /\ Len(recent') = Len(recent)
          /\ recent'[1].id = id
          /\ Retain(recent', id) = Retain(recent, id)]_vars

\* a project that was not at the front has been touched again within the same
\* second as the entry it overtook
C2_Witness ==
  /\ reply.cmd = "add"
  /\ retouched
  /\ Len(recent) >= 3
  /\ recent[1].id = reply.arg
  /\ recent[1].id < recent[2].id
  /\ recent[1].timestamp = recent[2].timestamp
  /\ recent[2].timestamp > recent[3].timestamp

\* C3: a touch of an id that is not in the cache, made when the cache holds
\* MAX_RECENT_PROJECTS entries, leaves MAX_RECENT_PROJECTS entries: the new one
\* at the front, then the previous entries without the last one. After eleven
\* touches of eleven different ids the first id is not in the cache.
C3_FullCacheEvictsTail ==
  /\ [][\A id \in ProjectIds :
          (IsTouch(id) /\ id \notin Ids(recent) /\ Len(recent) = MAX_RECENT_PROJECTS) =>
             /\ Len(recent') = MAX_RECENT_PROJECTS
             /\ recent'[1].id = id
             /\ SubSeq(recent', 2, MAX_RECENT_PROJECTS)
                  = SubSeq(recent, 1, MAX_RECENT_PROJECTS - 1)]_vars
  /\ []((opened = MAX_RECENT_PROJECTS + 1 /\ ~retouched /\ Len(recent) = MAX_RECENT_PROJECTS)
          => 1 \notin Ids(recent))

\* eleven different ids have been touched, the last one into a full cache
C3_Witness ==
  /\ opened = MAX_RECENT_PROJECTS + 1
  /\ ~retouched
  /\ reply.cmd = "add"
  /\ reply.arg = MAX_RECENT_PROJECTS + 1
  /\ Len(recent) = MAX_RECENT_PROJECTS
  /\ recent[1].id = MAX_RECENT_PROJECTS + 1
  /\ recent[MAX_RECENT_PROJECTS].id = 2

\* C4: list() after clear() (the command or the menu event), with no touch in
\* between, returns the empty sequence.
C4_ClearThenListEmpty ==
  lastCacheOp = "clear_list" => (reply.cmd = "list" /\ reply.value = << >>)

\* a cache that held every opened project was cleared and then listed
C4_Witness ==
  /\ lastCacheOp = "clear_list"
  /\ opened = MaxProjects
  /\ reply.cmd = "list"

(***************************************************************************)
(* Properties of window labels (checked under Spec).                       *)
(***************************************************************************)
BuildCalls == {c \in calls : c.stage = "build"}

\* the step handles a window-destroyed event
IsDestroyed == destroyed' = destroyed + 1

\* C5: two window-creation calls that run at the same time (create_new_window
\* and open_project_in_new_window in any mix) hold different values of
\* WINDOW_COUNTER and different labels; the first value handed out is 1 and
\* every call advances the counter by 1.
C5_ConcurrentCallsDistinct ==
  /\ \A c1, c2 \in BuildCalls : c1 # c2 => (c1.num # c2.num /\ c1.label # c2.label)
  /\ \A i \in 1..Len(issued) : issued[i].num = U32(i)
  /\ WINDOW_COUNTER = U32(Len(issued) + 1)

\* a create_new_window call and an open_project_in_new_window call are both
\* between their fetch_add and their build()
C5_Witness ==
  \E c1, c2 \in BuildCalls : c1.kind = "main" /\ c2.kind = "project" /\ c2.num = U32(1)

\* C6: no two live windows have the same label and no label is handed out
\* twice, also after windows were destroyed: a window-destroyed event leaves
\* WINDOW_COUNTER unchanged, and "main-" and "project-" labels draw their
\* numbers from the same counter.
C6_LabelsNeverReused ==
  /\ [](\A i, j \in 1..Len(windows) : windows[i].label = windows[j].label => i = j)
  /\ [](\A i, j \in 1..Len(issued) :
          (issued[i].label = issued[j].label \/ issued[i].num = issued[j].num) => i = j)
  /\ [][IsDestroyed => WINDOW_COUNTER' = WINDOW_COUNTER]_vars

\* "main-1" was destroyed, and a project window labelled after that is live
C6_Witness ==
  /\ Len(issued) >= 2
  /\ issued[1].label = "main-1"
  /\ "main-1" \notin Labels(windows)
  /\ returned.res = "Ok"
  /\ \E i \in 2..Len(issued) :
       /\ issued[i].after
       /\ issued[i].label = "project-" \o Decimal(U32(i))
       /\ issued[i].label \in Labels(windows)

(***************************************************************************)
(* Properties of the sidecar handle (checked under Spec).                  *)
(***************************************************************************)
\* C7: the backend is spawned once, in setup, however many windows are
\* created: the handle is absent, then present from the successful spawn
\* until it is taken, then absent for good.
C7_SpawnedOnce ==
  /\ [](/\ spawns <= 1
        /\ phase \in {"starting", "running"} => spawns = 1
        /\ sidecar = "present" <=> (spawns = 1 /\ kills = 0))
  /\ [][spawns' # spawns => phase = "init"]_vars
  /\ [][(sidecar = "absent" /\ phase # "init") => sidecar' = "absent"]_vars

\* the handle was taken and two more windows were created afterwards
C7_Witness ==
  /\ sidecar = "absent"
  /\ spawns = 1
  /\ kills = 1
  /\ \E i, j \in 1..Len(issued) :
       i # j /\ issued[i].after /\ issued[j].after
             /\ {issued[i].label, issued[j].label} \subseteq Labels(windows)

\* C8: over any sequence of window-destroyed events child.kill() is called
\* once: by the first event, which finds the handle present and clears it;
\* every later event finds the handle absent and changes nothing of the
\* sidecar.
C8_KillOnce ==
  /\ [](kills <= 1)
  /\ [](destroyed >= 1 => kills = 1)
  /\ [][(IsDestroyed /\ destroyed >= 1) =>
          (sidecar = "absent" /\ UNCHANGED <<sidecar, kills, proc, liveAtKill>>)]_vars

\* three windows were destroyed
C8_Witness ==
  /\ destroyed >= 3
  /\ kills = 1
  /\ sidecar = "absent"

\* C9 as stated: once a window-destroyed event has killed the backend, no
\* window that was live at that event is still live.
C9_KilledWithLastWindow ==
  kills > 0 => liveAtKill \cap Labels(windows) = {}

\* C9, amended: the first window-destroyed event takes the handle and kills
\* the backend, whether or not other windows are live at that event.
C9_KilledWithFirstWindow ==
  [][(IsDestroyed /\ destroyed = 0) =>
        /\ sidecar = "present"
        /\ sidecar' = "absent"
        /\ kills' = 1
        /\ proc' \in {proc, "exited"}]_vars

\* the backend was killed by the destruction of one window while two other
\* windows were live, and they still are
C9_Witness ==
  /\ kills = 1
  /\ destroyed = 1
  /\ sidecar = "absent"
  /\ Cardinality(liveAtKill) = 2
  /\ liveAtKill \subseteq Labels(windows)

\* C10: when the spawn of the backend fails, startup aborts: the handle is
\* never set, no window is created, the relay task is not started and no menu,
\* dock, reopen or window event is handled (no step changes the state).
C10_SpawnFailureAborts ==
  /\ [](proc = "failed" =>
          /\ phase = "aborted"
          /\ sidecar = "absent"
          /\ spawns = 0
          /\ relay = "notstarted"
          /\ windows = << >>
          /\ calls = {}
          /\ issued = << >>)
  /\ [][phase = "aborted" => UNCHANGED vars]_vars

\* the spawn failed
C10_Witness ==
  /\ proc = "failed"
  /\ phase = "aborted"

(***************************************************************************)
(* Properties of window creation and of the event handlers.                *)
(***************************************************************************)
\* a < b on u32 values
U32Less(a, b) == a.hi < b.hi \/ (a.hi = b.hi /\ a.lo < b.lo)

\* the step is the return of a window-creation call whose build() failed
IsBuildErr == returned' # returned /\ returned'.res = "Err"

\* C11: when build() fails in create_new_window or open_project_in_new_window,
\* the call returns Err, the application keeps running, no window is added and
\* WINDOW_COUNTER keeps the increment of that call: the numbers handed out are
\* strictly increasing and the counter is above all of them.
C11_BuildFailureKeepsCounter ==
  /\ [][IsBuildErr =>
          /\ \E c \in BuildCalls : c.label = returned'.label /\ calls' = calls \ {c}
          /\ windows' = windows
          /\ WINDOW_COUNTER' = WINDOW_COUNTER
          /\ phase = "running" /\ phase' = "running"]_vars
  /\ [](returned.res = "Err" => returned.label \notin Labels(windows))
  /\ [](\A i, j \in 1..Len(issued) : i < j => U32Less(issued[i].num, issued[j].num))
  /\ [](\A i \in 1..Len(issued) : U32Less(issued[i].num, WINDOW_COUNTER))

\* the build of "main-1" failed and the next create_new_window call, made by
\* the main thread after that, holds number 2
C11_Witness ==
  /\ returned = [label |-> "main-1", res |-> "Err"]
  /\ "main-1" \notin Labels(windows)
  /\ phase = "running"
  /\ \E c \in BuildCalls : c.label = "main-2" /\ c.thread = "main"

\* the record of the task that the "recent_project_" arm spawns for entry e
SpawnedFor(e) ==
  [stage |-> "spawned", kind |-> "project", num |-> U32(0), label |-> "",
   pid |-> e.id, name |-> e.name, thread |-> "async"]

\* C12: the menu event "recent_project_<id>" spawns open_project_in_new_window
\* with the id and the name of the cache entry of that id when there is one
\* (the task then takes the next number and label), and otherwise does nothing:
\* no window-creation call, no window, WINDOW_COUNTER unchanged.
C12_MenuRecentProject ==
  /\ [][\A id \in MenuIds :
          /\ handled' = [event |-> "recent_found", arg |-> id] =>
                /\ id \in Ids(recent)
                /\ \E k \in 1..Len(recent) :
                      recent[k].id = id /\ calls' = calls \cup {SpawnedFor(recent[k])}
                /\ UNCHANGED <<WINDOW_COUNTER, windows, issued, returned>>
          /\ handled' = [event |-> "recent_missing", arg |-> id] =>
                /\ id \notin Ids(recent)
                /\ UNCHANGED <<WINDOW_COUNTER, calls, windows, issued, returned>>]_vars
  /\ [][\A c \in calls :
          (c.stage = "spawned" /\ c \notin calls') =>
             \E b \in calls' \ calls :
                /\ b.stage = "build" /\ b.kind = "project"
                /\ b.pid = c.pid /\ b.name = c.name
                /\ b.label = Label("project", WINDOW_COUNTER)]_vars

\* the window of project 1 was opened from the menu; the cache was cleared
\* afterwards and the menu event for project 1 has just been ignored
C12_Witness ==
  /\ handled = [event |-> "recent_missing", arg |-> 1]
  /\ opened >= 1
  /\ recent = << >>
  /\ \E i \in 1..Len(windows) : windows[i].kind = "project" /\ windows[i].pid = 1

\* the step starts or finishes a window-creation call for a project
IsProjectCallStep ==
  \E c \in (calls \ calls') \cup (calls' \ calls) : c.kind = "project"

\* C13: open_project_in_new_window neither reads nor writes the cache of
\* recent projects: it can be called for a project whatever the cache holds,
\* its steps leave the cache unchanged, and when build() succeeds the window
\* of the project is there.
C13_OpenProjectIgnoresCache ==
  /\ []((FrontEnd /\ Cardinality(calls) < MaxPending /\ Len(issued) < MaxCalls)
          => ENABLED open_project_in_new_window)
  /\ [][IsProjectCallStep => UNCHANGED <<recent, reply, lastCacheOp>>]_vars
  /\ [][\A c \in calls \ calls' :
          (c.kind = "project" /\ returned'.res = "Ok") =>
             windows' = Append(windows, [label |-> c.label, kind |-> "project", pid |-> c.pid])]_vars

\* the window of a project that was never added to the cache has been created
C13_Witness ==
  /\ opened = 0
  /\ recent = << >>
  /\ returned.res = "Ok"
  /\ \E i \in 1..Len(windows) :
       /\ windows[i].kind = "project"
       /\ windows[i].pid \notin Ids(recent)
       /\ windows[i].label = returned.label

\* the call record of create_new_window with number n
MainCall(n) ==
  [stage |-> "build", kind |-> "main", num |-> n, label |-> Label("main", n),
   pid |-> 0, name |-> "", thread |-> "main"]

\* C14: a reopen event with has_visible_windows = false calls create_new_window
\* once: one number is taken and the window labelled "main-" + number is
\* built (and added, unless build() fails); a reopen event with
\* has_visible_windows = true changes neither the counter nor the windows.
C14_ReopenCreatesOneWindow ==
  /\ [][handled'.event = "reopen_hidden" =>
          /\ calls' = calls \cup {MainCall(WINDOW_COUNTER)}
          /\ MainCall(WINDOW_COUNTER) \notin calls
          /\ WINDOW_COUNTER' = WrappingInc(WINDOW_COUNTER)
          /\ windows' = windows]_vars
  /\ [][handled'.event = "reopen_visible" => UNCHANGED winVars]_vars
  /\ [][\A c \in calls \ calls' :
          c.thread = "main" =>
             \/ returned'.res = "Ok" /\
                  windows' = Append(windows, [label |-> c.label, kind |-> "main", pid |-> 0])
             \/ returned'.res = "Err" /\ windows' = windows]_vars

\* every window was destroyed and the reopen event has just taken a number
\* for the new window
C14_Witness ==
  /\ handled.event = "reopen_hidden"
  /\ windows = << >>
  /\ destroyed >= 1
  /\ \E c \in BuildCalls : c.kind = "main" /\ c.thread = "main"

\* C15: a menu event whose identifier matches no arm changes nothing: sidecar
\* handle and process, cache, counter, calls, windows and dock badge are as
\* before and the application keeps running.
C15_UnknownMenuEventIgnored ==
  [][handled'.event = "unknown" =>
       /\ UNCHANGED <<sidecar, proc, relay, kills, recent, WINDOW_COUNTER, calls, windows,
                      issued, badge, ports, phase>>
       /\ phase = "running"]_vars

\* an unrecognised menu event was handled while a handle, a cache entry, a
\* badge and two windows were there
C15_Witness ==
  /\ handled.event = "unknown"
  /\ sidecar = "present"
  /\ recent # << >>
  /\ badge # << >>
  /\ Len(windows) >= 2
  /\ WINDOW_COUNTER # U32(CounterSeed)

\* C17: get_server_ports returns (BUNDLED_SERVER_PORT, BUNDLED_PTY_PORT) on
\* every call and no step changes the registry.
C17_PortsConstant ==
  /\ [](portsReply # << >> => portsReply = <<BUNDLED_SERVER_PORT, BUNDLED_PTY_PORT>>)
  /\ [](ports = [server |-> BUNDLED_SERVER_PORT, pty |-> BUNDLED_PTY_PORT])
  /\ [][ports' = ports]_vars

\* the ports were returned after the cache was written and windows were opened
C17_Witness ==
  /\ portsReply = <<BUNDLED_SERVER_PORT, BUNDLED_PTY_PORT>>
  /\ recent # << >>
  /\ Len(windows) >= 2
  /\ calls # {}

(***************************************************************************)
(* Properties of the locks (checked under SpecThreads and SpecLocks).      *)
(***************************************************************************)
\* thread t is between lock() on the cache and the drop of the guard
InRecent(t) == pc[t].at \in {"retain", "push", "trim", "collect", "clear", "spawn"}

\* thread t has removed or inserted an entry and has not finished the call
MidTouch(t) == pc[t].op = "add" /\ pc[t].at \in {"push", "trim"}

\* C16: the commands of the cache exclude each other: at most one thread is
\* between lock() and the drop of the guard; get_recent_projects collects the
\* cache while no add_recent_project or clear_recent_projects is in progress,
\* so what it returns has at most MAX_RECENT_PROJECTS entries, no id twice,
\* and is never the cache between retain and push_front of a re-touch.
C16_ListIsAtomic ==
  /\ [](\A t, u \in Threads : (InRecent(t) /\ InRecent(u)) => t = u)
  /\ [](\A t \in Threads : InRecent(t) <=> locks.recent = t)
  /\ []((\A t \in Threads : ~MidTouch(t)) =>
          (Len(recent) <= MAX_RECENT_PROJECTS /\ NoDuplicateIds(recent)))
  /\ [][\A t \in Threads :
          (pc[t].at = "collect" /\ pc'[t] = Idle) =>
             /\ reply' = [cmd |-> "list", arg |-> 0, value |-> Snapshot(recent)]
             /\ \A u \in Threads \ {t} : ~InRecent(u)
             /\ recent' = recent]_vars
  /\ [](reply.cmd = "list" =>
          (Len(reply.value) <= MAX_RECENT_PROJECTS /\ NoDuplicateIds(reply.value)))

\* a thread is inside add_recent_project with eleven entries in the deque, and
\* the last get_recent_projects returned a full list
C16_Witness ==
  /\ Len(recent) = MAX_RECENT_PROJECTS + 1
  /\ \E t \in CmdThreads : MidTouch(t)
  /\ reply.cmd = "list"
  /\ Len(reply.value) = MAX_RECENT_PROJECTS

\* thread t is inside an operation of another component: child.kill(),
\* async_runtime::spawn, or the window creation of create_new_window
ForeignOp(t) ==
  \/ pc[t].at \in {"kill", "spawn"}
  \/ t = "main" /\ \E c \in calls : c.thread = "main"

\* the next statement of thread t while it holds a guard
HolderStep(t) ==
  \/ add_recent_project_retain(t)
  \/ add_recent_project_push(t)
  \/ add_recent_project_trim(t)
  \/ get_recent_projects_collect(t)
  \/ clear_recent_projects_clear(t)
  \/ set_dock_badge_store(t)
  \/ t = "main" /\ on_window_event_kill
  \/ t = "main" /\ Menu_recent_project_spawn

\* no thread holds two locks
NoNestedLocks == \A t \in Threads : Cardinality(Held(t)) <= 1

\* no thread holds a lock inside an operation of another component
NoLockInForeignOp == \A t \in Threads : ForeignOp(t) => Held(t) = {}

\* a thread that holds a lock can run its next statement, so every lock is
\* released and no thread waits for ever
NoDeadlock == \A t \in Threads : Held(t) # {} => ENABLED HolderStep(t)

\* C18 as stated: no thread holds two locks, no thread holds a lock while it
\* is inside child.kill(), async_runtime::spawn or a window creation, and no
\* reachable state is a deadlock.
C18_LocksHeldOnlyForState ==
  /\ NoNestedLocks
  /\ NoLockInForeignOp
  /\ NoDeadlock

(***************************************************************************)
(* Properties of the output relay (checked under SpecRelay).               *)
(***************************************************************************)
\* the lines that the events of one kind in s are printed as
LinesOf(s, kind, prefix) ==
  LET f == SelectSeq(s, LAMBDA e : e.kind = kind)
  IN  [i \in 1..Len(f) |-> prefix \o Lossy(f[i].data)]

\* C19: the relay prints every Stdout event to stdout and every Stderr event
\* to stderr, in the order in which it received them, and does nothing for any
\* other event: it takes the events in channel order and changes nothing of
\* the sidecar, so after CommandEvent::Terminated the handle is still present
\* as long as no window was destroyed.
C19_RelayForwardsInOrder ==
  /\ [](out = LinesOf(received, "Stdout", "[sidecar stdout] "))
  /\ [](err = LinesOf(received, "Stderr", "[sidecar stderr] "))
  /\ [][received' # received =>
          /\ chan # << >>
          /\ received' = Append(received, Head(chan))
          /\ chan' = Tail(chan)
          /\ UNCHANGED <<sidecar, proc, kills, spawns, destroyed, windows, phase>>]_vars
  /\ []((spawns = 1 /\ destroyed = 0) => sidecar = "present")

\* the backend wrote to both streams and exited on its own; the relay has
\* received Terminated and the handle is still present
C19_Witness ==
  /\ Len(received) = MaxChunks + 1
  /\ received[Len(received)].kind = "Terminated"
  /\ out # << >>
  /\ err # << >>
  /\ proc = "exited"
  /\ destroyed = 0
  /\ sidecar = "present"

\* C20: the relay loop ends only when the channel is closed and empty; once
\* the channel is closed the loop ends eventually (the runtime runs the task);
\* while the loop waits on an open, empty channel the menu events, the window
\* events and the commands can be handled.
C20_RelayEndsWithChannel ==
  /\ [][relay' # relay => (relay' = "ended" => (~chanOpen /\ chan = << >>))]_vars
  /\ [](relay = "ended" => (~chanOpen /\ chan = << >>))
  /\ ((relay = "running" /\ ~chanOpen) ~> (relay = "ended"))
  /\ []((phase = "running" /\ relay = "running" /\ chanOpen /\ chan = << >>) =>
          /\ ENABLED Menu_unknown
          /\ windows # << >> => (ENABLED OnWindowDestroyed /\ ENABLED get_server_ports))

\* the backend was killed by a window-destroyed event, its output was drained
\* and the loop has ended
C20_Witness ==
  /\ relay = "ended"
  /\ kills = 1
  /\ proc = "exited"
  /\ Len(received) = MaxChunks + 1
  /\ ~chanOpen

(***************************************************************************)
(* The counter at the upper limit of u32 (checked under SpecLate).         *)
(***************************************************************************)
\* C21: WINDOW_COUNTER is strictly monotonic for the whole lifetime of the
\* process: every window-creation call obtains a number strictly greater than
\* the number of every earlier call, also when the counter holds u32::MAX.
C21_CounterStrictlyMonotonic ==
  \A i, j \in 1..Len(issued) : i < j => U32Less(issued[i].num, issued[j].num)

(***************************************************************************)
(* The cache against its reference model (checked under SpecDriver).       *)
(***************************************************************************)
\* the id, name and path of every entry of a list
NameAndPath(s) == [i \in 1..Len(s) |-> [id |-> s[i].id, name |-> s[i].name, path |-> s[i].path]]

\* the reference model: the projects touched since the last clear, the most
\* recently touched first, the first MAX_RECENT_PROJECTS of them, each with the
\* name and path of its last touch
RefList(log) ==
  LET n == Len(log)
      k == IF n < MAX_RECENT_PROJECTS THEN n ELSE MAX_RECENT_PROJECTS
  IN  [i \in 1..k |-> log[n + 1 - i]]

\* C22: after any sequence of touch and clear operations the cache, and what
\* list() returns, equals the reference model: the distinct ids touched since
\* the last clear, ordered by last touch with the most recent first, truncated
\* to the first 10, each with the name and path of its last touch.
C22_ListEqualsReference ==
  /\ NameAndPath(recent) = RefList(touched)
  /\ lastCacheOp \in {"list", "clear_list"} =>
       (reply.cmd = "list" /\ NameAndPath(reply.value) = RefList(touched))

\* eleven projects were touched, project 1 again under another name after it
\* had been evicted, and list() returns ten entries with project 1 first
C22_Witness ==
  /\ lastCacheOp = "list"
  /\ Len(touched) = MAX_RECENT_PROJECTS + 1
  /\ retouched
  /\ Len(reply.value) = MAX_RECENT_PROJECTS
  /\ reply.value[1].id = 1
  /\ reply.value[1].name # Descriptors[DescriptorOf(1)].name
  /\ 2 \notin Ids(reply.value)

(***************************************************************************)
(* The menu of recent projects and the cache (checked under SpecMenu).     *)
(***************************************************************************)
\* the step handles the menu event "recent_project_<id>"
IsMenuRecent == handled'.event \in {"recent_found", "recent_missing"}

\* C23: the menu event "recent_project_<id>" leaves the cache of recent
\* projects as it is, whether the id is found or not: no entry is moved, no
\* timestamp refreshed, the size is the same; the task it spawns leaves the
\* cache alone too. The cache changes only in add_recent_project,
\* clear_recent_projects and the "clear_recent" menu item.
C23_MenuRecentLeavesCache ==
  /\ [][IsMenuRecent => UNCHANGED <<recent, now, reply, lastCacheOp>>]_vars
  /\ [][IsProjectCallStep => UNCHANGED <<recent, now>>]_vars
  /\ [][recent' # recent =>
          /\ handled' = NoEvent
          /\ UNCHANGED winVars
          /\ \/ \E id \in MenuIds : IsTouch(id)
             \/ recent' = << >> /\ lastCacheOp' = "clear"]_vars

\* project 1 is opened from the menu a second time, its window from the first
\* time is there, and its entry is the one that add_recent_project wrote
C23_Witness ==
  /\ handled = [event |-> "recent_found", arg |-> 1]
  /\ \E c \in calls : c.stage = "spawned" /\ c.pid = 1
  /\ \E i \in 1..Len(windows) : windows[i].kind = "project" /\ windows[i].pid = 1
  /\ Len(recent) = 1 /\ recent[1].id = 1
  /\ lastCacheOp = "touch" /\ reply = [cmd |-> "add", arg |-> 1, value |-> << >>]

(***************************************************************************)
(* A kill that fails (checked under SpecHost).                             *)
(***************************************************************************)
\* child.kill() was called and the backend process still runs
KillFailed == kills >= 1 /\ proc = "running"

\* C24: a window-destroyed event that finds the handle present leaves it
\* absent whether child.kill() succeeds or fails: the failure is swallowed
\* (the application runs on, the window is gone), the handle is not put back
\* and no later window-destroyed event calls kill() again.
C24_FailedKillSwallowed ==
  /\ [][(IsDestroyed /\ sidecar = "present") =>
          /\ sidecar' = "absent"
          /\ kills' = kills + 1
          /\ Len(windows') = Len(windows) - 1
          /\ phase' = "running"]_vars
  /\ [](KillFailed => sidecar = "absent" /\ kills = 1 /\ phase = "running")
  /\ [][KillFailed => (sidecar' = "absent" /\ kills' = kills)]_vars
  /\ [](kills >= 1 => sidecar = "absent")

\* the kill at the first window-destroyed event failed, a second window was
\* destroyed after it, and the backend still runs without a handle
C24_Witness ==
  /\ KillFailed
  /\ destroyed >= 2
  /\ sidecar = "absent"
  /\ phase = "running"

====
